---- MODULE Spec2Model ----
(***************************************************************************)
(* Lesson scheduling (ScheduleValidator + api/lessons.py) and the M-Pesa   *)
(* payment state machine (api/payments.py) of the driving-school backend.  *)
(*                                                                         *)
(* Time is an integer number of minutes counted from a Monday 00:00 UTC.   *)
(* The query columns Lesson.start_time / Lesson.end_time are read as the   *)
(* lesson's scheduled_at and scheduled_at + duration_minutes, the pair     *)
(* schedule_lesson derives from the request; enrollment.user_id is the     *)
(* holder of the enrollment.                                               *)
(***************************************************************************)
EXTENDS Integers, Sequences, FiniteSets, TLC

(* ---------------- program constants ---------------- *)
BUSINESS_START_HOUR == 7
BUSINESS_END_HOUR == 19
MIN_LESSON_DURATION_MINUTES == 30
MAX_LESSON_DURATION_MINUTES == 180
MIN_ADVANCE_BOOKING_HOURS == 2
MAX_ADVANCE_BOOKING_DAYS == 90
MIN_BREAK_MINUTES == 15

MinutesPerDay == 1440

\* PaymentValidator; money is counted in thousandths of a shilling
MIN_PAYMENT_AMOUNT == 100000
MAX_PAYMENT_AMOUNT == 500000000
MAX_DAILY_PAYMENT_LIMIT == 1000000000

(* ---------------- bounds ---------------- *)
MaxLessons == 2
MaxPayments == 2
\* no callback is delivered that would raise a total_paid above this many confirmed amounts
MaxCredits == 2
\* instants 0..MaxTime for the ends of the intervals handed to the conflict clause
MaxTime == 4

(* what datetime.utcnow() may return to a request: Monday 08:30 or Monday 11:30 *)
Clock == {510, 690}

(* ---------------- domains of the inputs ---------------- *)
Instructors == {"i1", "i2"}
NoVehicle == "none"
Vehicles == {"v1"}
LessonStatus == {"scheduled", "completed", "cancelled", "no_show"}

\* callers: id and role (UserRole)
Callers ==
  { [id |-> "u1", role |-> "student"], [id |-> "a1", role |-> "admin"],
    [id |-> "i1", role |-> "instructor"] }

\* the enrollment table: id -> holder; "e0" is an id with no row
Enrollments == {"e1", "e2"}
EnrollmentIds == Enrollments \cup {"e0"}
Holder(e) == IF e = "e1" THEN "u1" ELSE "u2"

\* Monday 10:30, 11:00, 11:15, each for half an hour
StartTimes == {630, 660, 675}
Durations == {30}

\* requests that break a static rule: <<scheduled_at, duration_minutes>>
\*   Monday 06:00 and 18:30+60 (business hours), 10:30+0, +29, +181 (duration),
\*   Monday 07:00 (past), 10:00 (short notice), a Monday 91 days ahead,
\*   Saturday 17:00, Sunday 10:30
BadTimes ==
  { <<360, 30>>, <<1110, 60>>, <<630, 0>>, <<630, 29>>, <<630, 181>>,
    <<420, 30>>, <<600, 30>>, <<91 * MinutesPerDay + 630, 30>>,
    <<5 * MinutesPerDay + 1020, 30>>, <<6 * MinutesPerDay + 630, 30>> }

\* bookable requests (theory lessons, without a vehicle, are given by i1)
GoodRequests ==
  { r \in [scheduled_at : StartTimes, duration_minutes : Durations,
           instructor_id : Instructors, vehicle_id : Vehicles \cup {NoVehicle},
           enrollment_id : EnrollmentIds, status : LessonStatus] :
      r.instructor_id = "i2" => r.vehicle_id # NoVehicle }

LessonCreate ==
  GoodRequests
  \cup
  { [scheduled_at |-> b[1], duration_minutes |-> b[2], instructor_id |-> "i1",
     vehicle_id |-> v, enrollment_id |-> "e1", status |-> "scheduled"] :
       b \in BadTimes, v \in Vehicles \cup {NoVehicle} }

\* amounts asked of initiate_payment: 0, 50, 100.005, 5000, 500000.01 shillings
RequestAmounts == {0, 50000, 100005, 5000000, 500000010}

\* what the gateway reports as captured: 4900 shillings for the 5000 asked
ConfirmedAmount == 4900000

\* values of Payment.external_ref: the placeholder written at creation and the
\* identifiers that arrive from outside (checkout request ids, receipt numbers)
Placeholder == "PENDING_ts"
Null == "null"
Refs == {"r1", "r2"}

\* the clock read by the payment handlers: Monday 08:30
PayClock == {510}

\* the stkCallback payload: CheckoutRequestID, ResultCode, and the Amount and
\* MpesaReceiptNumber items of CallbackMetadata; the endpoint takes any JSON body
NoAmount == -1
Callbacks ==
  [checkout_request_id : Refs, result_code : {0, 1},
   amount : {ConfirmedAmount}, mpesa_receipt_number : Refs]

\* no callback processed yet
NoCallback ==
  [checkout_request_id |-> Null, result_code |-> -1,
   amount |-> NoAmount, mpesa_receipt_number |-> Null]

\* requests issued while another request is in flight
RaceRequests ==
  { r \in GoodRequests : r.status = "scheduled" /\ r.enrollment_id \in Enrollments }

\* request-handling tasks that may interleave at their await points
Workers == {1, 2}

VARIABLES
  lessons,     \* the lesson table, in insertion order; a lesson's id is its index
  payments,    \* the payment table, in insertion order
  total_paid,  \* Enrollment.total_paid of each enrollment
  result,      \* the last response sent
  pc,          \* per worker: where its handler is suspended ("idle" between requests)
  task,        \* per worker: the locals of the suspended handler
  last_callback, \* history: the payload of the callback processed last
  stk_calls    \* history: the payments MpesaService.stk_push was called for, in call order

vars == <<lessons, payments, total_paid, result, pc, task, last_callback, stk_calls>>
sched_vars == <<lessons>>
pay_vars == <<payments, total_paid, stk_calls>>

NoTask == [kind |-> "none"]

(* ---------------- datetime accessors ---------------- *)
Weekday(t) == (t \div MinutesPerDay) % 7
Hour(t) == (t % MinutesPerDay) \div 60
Minute(t) == t % 60

OK == "ok"

(* ---------------- ScheduleValidator ---------------- *)
validate_business_hours(start_time, end_time) ==
  IF Hour(start_time) < BUSINESS_START_HOUR
    THEN "Lessons cannot start before 7:00 AM"
  ELSE IF Hour(end_time) >= BUSINESS_END_HOUR
          \/ (Hour(end_time) = BUSINESS_END_HOUR /\ Minute(end_time) > 0)
    THEN "Lessons must end by 19:00 PM"
  ELSE IF Hour(start_time) >= BUSINESS_END_HOUR
    THEN "Lesson start time is outside business hours"
  ELSE OK

validate_lesson_duration(start_time, end_time) ==
  IF end_time <= start_time
    THEN "Lesson end time must be after start time"
  ELSE IF end_time - start_time < MIN_LESSON_DURATION_MINUTES
    THEN "Lesson must be at least 30 minutes"
  ELSE IF end_time - start_time > MAX_LESSON_DURATION_MINUTES
    THEN "Lesson cannot exceed 180 minutes"
  ELSE OK

\* the two-hour notice compared with <= instead of <
validate_advance_booking_NoticeExclusive(start_time, utcnow) ==
  IF start_time < utcnow
    THEN "Cannot schedule lessons in the past"
  ELSE IF start_time <= utcnow + MIN_ADVANCE_BOOKING_HOURS * 60
    THEN "Lessons must be booked at least 2 hours in advance"
  ELSE IF start_time > utcnow + MAX_ADVANCE_BOOKING_DAYS * MinutesPerDay
    THEN "Cannot book lessons more than 90 days in advance"
  ELSE OK

validate_advance_booking(start_time, utcnow) ==
  IF start_time < utcnow
    THEN "Cannot schedule lessons in the past"
  ELSE IF start_time < utcnow + MIN_ADVANCE_BOOKING_HOURS * 60
    THEN "Lessons must be booked at least 2 hours in advance"
  ELSE IF start_time > utcnow + MAX_ADVANCE_BOOKING_DAYS * MinutesPerDay
    THEN "Cannot book lessons more than 90 days in advance"
  ELSE OK

validate_weekend_scheduling(start_time) ==
  IF Weekday(start_time) = 6
    THEN "Lessons are not available on Sundays"
  ELSE IF Weekday(start_time) = 5
          /\ (Hour(start_time) < 8 \/ Hour(start_time) >= 17)
    THEN "Saturday lessons are only available between 8:00 AM and 5:00 PM"
  ELSE OK

\* the columns of a persisted lesson as the conflict queries read them
LessonStart(l) == l.scheduled_at
LessonEnd(l) == l.scheduled_at + l.duration_minutes

\* the queries without their status filter
ActiveStatus_AnyStatus(s) == TRUE

\* Lesson.status.in_(['scheduled', 'in_progress'])
ActiveStatus(s) == s \in {"scheduled", "in_progress"}

\* the first and_ with >= for its >
OverlapClause_EndInclusive(s, e, from, to) ==
  \/ (s <= from /\ e >= from)
  \/ (s < to /\ e >= to)
  \/ (s >= from /\ e <= to)

\* the or_(and_, and_, and_) of both conflict queries
OverlapClause(s, e, from, to) ==
  \/ (s <= from /\ e > from)
  \/ (s < to /\ e >= to)
  \/ (s >= from /\ e <= to)

\* the query without the Lesson.id != exclude_lesson_id clause
InstructorConflicts_NoExclusion(L, instructor_id, start_time, end_time, exclude_lesson_id) ==
  LET buffer_start == start_time - MIN_BREAK_MINUTES
      buffer_end == end_time + MIN_BREAK_MINUTES
  IN { i \in DOMAIN L :
         /\ L[i].instructor_id = instructor_id
         /\ ActiveStatus(L[i].status)
         /\ OverlapClause(LessonStart(L[i]), LessonEnd(L[i]), buffer_start, buffer_end) }

InstructorConflicts(L, instructor_id, start_time, end_time, exclude_lesson_id) ==
  LET buffer_start == start_time - MIN_BREAK_MINUTES
      buffer_end == end_time + MIN_BREAK_MINUTES
  IN { i \in DOMAIN L :
         /\ L[i].instructor_id = instructor_id
         /\ ActiveStatus(L[i].status)
         /\ OverlapClause(LessonStart(L[i]), LessonEnd(L[i]), buffer_start, buffer_end)
         /\ i # exclude_lesson_id }

check_instructor_availability(L, instructor_id, start_time, end_time, exclude_lesson_id) ==
  IF InstructorConflicts(L, instructor_id, start_time, end_time, exclude_lesson_id) # {}
    THEN "Instructor is not available at this time (including required break time)"
    ELSE OK

VehicleConflicts(L, vehicle_id, start_time, end_time, exclude_lesson_id) ==
  { i \in DOMAIN L :
      /\ L[i].vehicle_id = vehicle_id
      /\ ActiveStatus(L[i].status)
      /\ OverlapClause(LessonStart(L[i]), LessonEnd(L[i]), start_time, end_time)
      /\ i # exclude_lesson_id }

check_vehicle_availability(L, vehicle_id, start_time, end_time, exclude_lesson_id) ==
  IF VehicleConflicts(L, vehicle_id, start_time, end_time, exclude_lesson_id) # {}
    THEN "Vehicle is not available at this time"
    ELSE OK

\* the four checks validate_schedule makes before it touches the database
StaticChecks(start_time, end_time, utcnow) ==
  LET e1 == validate_business_hours(start_time, end_time)
      e2 == validate_lesson_duration(start_time, end_time)
      e3 == validate_advance_booking(start_time, utcnow)
      e4 == validate_weekend_scheduling(start_time)
  IN IF e1 # OK THEN e1
     ELSE IF e2 # OK THEN e2
     ELSE IF e3 # OK THEN e3
     ELSE e4

\* exclude_lesson_id = 0 is "no lesson excluded" (lesson ids start at 1)
validate_schedule(L, start_time, end_time, instructor_id, vehicle_id, utcnow, exclude_lesson_id) ==
  LET e0 == StaticChecks(start_time, end_time, utcnow)
      e5 == check_instructor_availability(L, instructor_id, start_time, end_time, exclude_lesson_id)
      e6 == check_vehicle_availability(L, vehicle_id, start_time, end_time, exclude_lesson_id)
  IN IF e0 # OK THEN e0
     ELSE IF e5 # OK THEN e5
     ELSE IF vehicle_id # NoVehicle /\ e6 # OK THEN e6
     ELSE OK

(* ---------------- api/lessons.py ---------------- *)
ReqStart(req) == req.scheduled_at
ReqEnd(req) == req.scheduled_at + req.duration_minutes

\* lines 53-59: the ownership test of schedule_lesson
EnrollmentAuthorized(req, user) ==
  ~ ( /\ req.enrollment_id \in Enrollments
      /\ Holder(req.enrollment_id) # user.id
      /\ user.role \notin {"admin", "instructor"} )

\* Lesson.model_validate(lesson): the row carries the request's fields;
\* seen is history: how many rows the table held when the conflict query ran
NewLesson(req, seenRows) ==
  [scheduled_at |-> req.scheduled_at, duration_minutes |-> req.duration_minutes,
   instructor_id |-> req.instructor_id, vehicle_id |-> req.vehicle_id,
   status |-> req.status, seen |-> seenRows]

Response(op, code, detail) == [op |-> op, code |-> code, detail |-> detail]

\* the lesson saved before the ownership test
schedule_lesson_SavedBeforeOwnershipTest(req, user, utcnow) ==
  LET err == validate_schedule(lessons, ReqStart(req), ReqEnd(req),
                               req.instructor_id, req.vehicle_id, utcnow, 0)
  IN /\ Len(lessons) < MaxLessons
     /\ IF err # OK
          THEN /\ result' = Response("schedule_lesson", 400, err)
               /\ UNCHANGED lessons
          ELSE /\ lessons' = Append(lessons, NewLesson(req, Len(lessons)))
               /\ result' = IF ~EnrollmentAuthorized(req, user)
                              THEN Response("schedule_lesson", 403,
                                     "Not authorized to schedule lessons for this enrollment")
                              ELSE Response("schedule_lesson", 200, OK)

schedule_lesson(req, user, utcnow) ==
  LET err == validate_schedule(lessons, ReqStart(req), ReqEnd(req),
                               req.instructor_id, req.vehicle_id, utcnow, 0)
  IN /\ Len(lessons) < MaxLessons
     /\ IF err # OK
          THEN /\ result' = Response("schedule_lesson", 400, err)
               /\ UNCHANGED lessons
        ELSE IF ~EnrollmentAuthorized(req, user)
          THEN /\ result' = Response("schedule_lesson", 403,
                     "Not authorized to schedule lessons for this enrollment")
               /\ UNCHANGED lessons
        ELSE /\ lessons' = Append(lessons, NewLesson(req, Len(lessons)))
             /\ result' = Response("schedule_lesson", 200, OK)

update_lesson_status(lesson_id, status, user) ==
  /\ IF user.role # "admin"
       THEN /\ result' = Response("update_lesson_status", 403,
                  "Not enough permissions. Admin access required.")
            /\ UNCHANGED lessons
     ELSE IF lesson_id \notin DOMAIN lessons
       THEN /\ result' = Response("update_lesson_status", 404, "Lesson not found")
            /\ UNCHANGED lessons
     ELSE /\ lessons' = [lessons EXCEPT ![lesson_id].status = status]
          /\ result' = Response("update_lesson_status", 200, OK)

\* ---- schedule_lesson as the event loop runs it: one step per await ----
\* lines 42-48 up to the instructor query of validate_schedule
sl_check_instructor(w, req, user, utcnow) ==
  LET e0 == StaticChecks(ReqStart(req), ReqEnd(req), utcnow)
      e5 == check_instructor_availability(lessons, req.instructor_id,
                                          ReqStart(req), ReqEnd(req), 0)
      err == IF e0 # OK THEN e0 ELSE e5
  IN /\ pc[w] = "idle"
     /\ Len(lessons) < MaxLessons
     /\ IF err # OK
          THEN /\ result' = Response("schedule_lesson", 400, err)
               /\ UNCHANGED <<pc, task>>
          ELSE /\ pc' = [pc EXCEPT ![w] = IF req.vehicle_id # NoVehicle
                                            THEN "sl_vehicle" ELSE "sl_enrollment"]
               /\ task' = [task EXCEPT ![w] = [kind |-> "schedule_lesson", req |-> req,
                                               user |-> user, seen |-> Len(lessons)]]
               /\ UNCHANGED result
     /\ UNCHANGED <<lessons, pay_vars, last_callback>>

\* validate_schedule lines 280-288: the vehicle query
sl_check_vehicle(w) ==
  LET req == task[w].req
      e6 == check_vehicle_availability(lessons, req.vehicle_id, ReqStart(req), ReqEnd(req), 0)
  IN /\ pc[w] = "sl_vehicle"
     /\ IF e6 # OK
          THEN /\ result' = Response("schedule_lesson", 400, e6)
               /\ pc' = [pc EXCEPT ![w] = "idle"]
               /\ task' = [task EXCEPT ![w] = NoTask]
          ELSE /\ pc' = [pc EXCEPT ![w] = "sl_enrollment"]
               /\ UNCHANGED <<result, task>>
     /\ UNCHANGED <<lessons, pay_vars, last_callback>>

\* lines 53-59: session.get(Enrollment) and the ownership test
sl_check_enrollment(w) ==
  /\ pc[w] = "sl_enrollment"
  /\ IF ~EnrollmentAuthorized(task[w].req, task[w].user)
       THEN /\ result' = Response("schedule_lesson", 403,
                  "Not authorized to schedule lessons for this enrollment")
            /\ pc' = [pc EXCEPT ![w] = "idle"]
            /\ task' = [task EXCEPT ![w] = NoTask]
       ELSE /\ pc' = [pc EXCEPT ![w] = "sl_commit"]
            /\ UNCHANGED <<result, task>>
  /\ UNCHANGED <<lessons, pay_vars, last_callback>>

\* lines 61-65: session.add, commit
sl_commit(w) ==
  /\ pc[w] = "sl_commit"
  /\ lessons' = Append(lessons, NewLesson(task[w].req, task[w].seen))
  /\ result' = Response("schedule_lesson", 200, OK)
  /\ pc' = [pc EXCEPT ![w] = "idle"]
  /\ task' = [task EXCEPT ![w] = NoTask]
  /\ UNCHANGED <<pay_vars, last_callback>>

(* ---------------- PaymentValidator ---------------- *)
\* the check without its lower bound
validate_amount_NoMinimum(amount) ==
  IF amount <= 0
    THEN "Payment amount must be greater than zero"
  ELSE IF amount > MAX_PAYMENT_AMOUNT
    THEN "Payment amount cannot exceed KES 500000.00"
  ELSE IF amount % 10 # 0
    THEN "Payment amount cannot have more than 2 decimal places"
  ELSE OK

validate_amount(amount) ==
  IF amount <= 0
    THEN "Payment amount must be greater than zero"
  ELSE IF amount < MIN_PAYMENT_AMOUNT
    THEN "Payment amount must be at least KES 100.00"
  ELSE IF amount > MAX_PAYMENT_AMOUNT
    THEN "Payment amount cannot exceed KES 500000.00"
  ELSE IF amount % 10 # 0
    THEN "Payment amount cannot have more than 2 decimal places"
  ELSE OK

RECURSIVE SumAmounts(_, _)
SumAmounts(P, ids) ==
  IF ids = {} THEN 0
  ELSE LET i == CHOOSE x \in ids : TRUE
       IN P[i].amount + SumAmounts(P, ids \ {i})

\* the rows the daily-limit query sums: completed payments of the user created
\* on the calendar day of payment_date
DailyRows(P, user_id, payment_date) ==
  { i \in DOMAIN P :
      /\ Holder(P[i].enrollment_id) = user_id
      /\ P[i].created_at \div MinutesPerDay = payment_date \div MinutesPerDay
      /\ P[i].status = "completed" }

validate_daily_limit(P, user_id, amount, payment_date) ==
  IF SumAmounts(P, DailyRows(P, user_id, payment_date)) + amount > MAX_DAILY_PAYMENT_LIMIT
    THEN "Daily payment limit of KES 1000000.00 would be exceeded"
    ELSE OK

(* ---------------- api/payments.py ---------------- *)
\* lines 56-62; confirmed is history: the amount of the callback that last
\* completed the payment
NewPayment(enrollment_id, amount, utcnow) ==
  [enrollment_id |-> enrollment_id, amount |-> amount, status |-> "pending",
   external_ref |-> Placeholder, created_at |-> utcnow, confirmed |-> 0]

\* MpesaService.stk_push: an exception, or a response with a CheckoutRequestID
\* that the gateway has not handed out before
GatewayFailure == "gateway_failure"
GatewayResponses(P) ==
  {GatewayFailure} \cup (Refs \ { P[i].external_ref : i \in DOMAIN P })

\* the except branch leaving the payment as it was created
GatewayOutcome_FailureSwallowed(row, gw) ==
  IF gw = GatewayFailure THEN row ELSE [row EXCEPT !.external_ref = gw]

\* lines 76-86: what the handler writes to the payment after stk_push returned
\* a CheckoutRequestID, or raised
GatewayOutcome(row, gw) ==
  IF gw = GatewayFailure
    THEN [row EXCEPT !.status = "failed"]
    ELSE [row EXCEPT !.external_ref = gw]

\* lines 87 and 100
InitiateResponse(gw) ==
  IF gw = GatewayFailure
    THEN Response("initiate_payment", 400, "M-Pesa Initiation Failed")
    ELSE Response("initiate_payment", 200, OK)

\* the handler going on without looking the enrollment up
EnrollmentFound_NotVerified(enrollment_id) == TRUE

\* lines 50-53: session.get(Enrollment, enrollment_id) returned a row
EnrollmentFound(enrollment_id) == enrollment_id \in Enrollments

initiate_payment_handler(enrollment_id, amount, user, utcnow, gw) ==
  LET e1 == validate_amount(amount)
      e2 == validate_daily_limit(payments, user.id, amount, utcnow)
      id == Len(payments) + 1
      row == NewPayment(enrollment_id, amount, utcnow)
  IN /\ gw \in GatewayResponses(payments)
     /\ IF e1 # OK
          THEN /\ result' = Response("initiate_payment", 400, e1)
               /\ UNCHANGED pay_vars
        ELSE IF e2 # OK
          THEN /\ result' = Response("initiate_payment", 400, e2)
               /\ UNCHANGED pay_vars
        ELSE IF ~EnrollmentFound(enrollment_id)
          THEN /\ result' = Response("initiate_payment", 404, "Enrollment not found")
               /\ UNCHANGED pay_vars
        ELSE /\ payments' = Append(payments, GatewayOutcome(row, gw))
             /\ stk_calls' = Append(stk_calls, id)
             /\ result' = InitiateResponse(gw)
             /\ UNCHANGED total_paid

\* the handler while the payment table has room
initiate_payment(enrollment_id, amount, user, utcnow, gw) ==
  /\ Len(payments) < MaxPayments
  /\ initiate_payment_handler(enrollment_id, amount, user, utcnow, gw)

\* ---- initiate_payment as the event loop runs it ----
\* the commit of the new row put off until after the gateway call
PendingCommitted_Deferred(P, row) == P

\* lines 63-65: session.add(payment), commit, refresh
PendingCommitted(P, row) == Append(P, row)

\* lines 33-65: the validations, then the PENDING row is created and committed
ip_begin(w, enrollment_id, amount, user, utcnow) ==
  LET e1 == validate_amount(amount)
      e2 == validate_daily_limit(payments, user.id, amount, utcnow)
  IN /\ pc[w] = "idle"
     /\ Len(payments) < MaxPayments
     /\ IF e1 # OK
          THEN /\ result' = Response("initiate_payment", 400, e1)
               /\ UNCHANGED <<payments, pc, task>>
        ELSE IF e2 # OK
          THEN /\ result' = Response("initiate_payment", 400, e2)
               /\ UNCHANGED <<payments, pc, task>>
        ELSE IF ~EnrollmentFound(enrollment_id)
          THEN /\ result' = Response("initiate_payment", 404, "Enrollment not found")
               /\ UNCHANGED <<payments, pc, task>>
        ELSE /\ payments' = PendingCommitted(payments, NewPayment(enrollment_id, amount, utcnow))
             /\ pc' = [pc EXCEPT ![w] = "ip_stk_push"]
             /\ task' = [task EXCEPT ![w] = [kind |-> "initiate_payment",
                                             payment |-> Len(payments) + 1]]
             /\ UNCHANGED result
     /\ UNCHANGED <<lessons, total_paid, stk_calls, last_callback>>

\* lines 68-74: MpesaService.stk_push is called and awaited
ip_stk_push(w) ==
  /\ pc[w] = "ip_stk_push"
  /\ stk_calls' = Append(stk_calls, task[w].payment)
  /\ pc' = [pc EXCEPT ![w] = "ip_await"]
  /\ UNCHANGED <<lessons, payments, total_paid, result, task, last_callback>>

\* lines 76-100: the call returned or raised; the payment is written and committed
ip_response(w, gw) ==
  /\ pc[w] = "ip_await"
  /\ gw \in GatewayResponses(payments)
  /\ payments' = [payments EXCEPT ![task[w].payment] = GatewayOutcome(@, gw)]
  /\ result' = InitiateResponse(gw)
  /\ pc' = [pc EXCEPT ![w] = "idle"]
  /\ task' = [task EXCEPT ![w] = NoTask]
  /\ UNCHANGED <<lessons, total_paid, stk_calls, last_callback>>

\* the select without its where clause
MatchingPayments_NoFilter(P, checkout_request_id) == DOMAIN P

\* select(Payment).where(Payment.external_ref == checkout_request_id)
MatchingPayments(P, checkout_request_id) ==
  { i \in DOMAIN P : P[i].external_ref = checkout_request_id }

\* next((item Value for Name == 'Amount'), 0)
CallbackAmount(cb) == IF cb.amount = NoAmount THEN 0 ELSE cb.amount

\* lines 130-148: what the handler writes to the payment row it found
UpdatedPayment(row, cb) ==
  IF cb.result_code = 0
    THEN [row EXCEPT !.status = "completed",
                     !.external_ref = cb.mpesa_receipt_number,
                     !.confirmed = CallbackAmount(cb)]
    ELSE [row EXCEPT !.status = "failed"]

\* the enrollment left out of the commit
CreditedTotal_NoCredit(read_total, cb) == read_total

\* the credit made whatever the result code
CreditedTotal_AnyResultCode(read_total, cb) == read_total + CallbackAmount(cb)

\* lines 140-143: enrollment.total_paid += float(amount), from the value read
CreditedTotal(read_total, cb) ==
  IF cb.result_code = 0 THEN read_total + CallbackAmount(cb) ELSE read_total

mpesa_callback(cb) ==
  LET found == MatchingPayments(payments, cb.checkout_request_id)
  IN IF found = {}
       THEN /\ result' = Response("mpesa_callback", 200, "Payment not found")
            /\ UNCHANGED pay_vars
       ELSE \E p \in found :
              LET e == payments[p].enrollment_id
              IN /\ CreditedTotal(total_paid[e], cb) <= MaxCredits * ConfirmedAmount
                 /\ payments' = [payments EXCEPT ![p] = UpdatedPayment(@, cb)]
                 /\ total_paid' = [total_paid EXCEPT ![e] = CreditedTotal(@, cb)]
                 /\ result' = Response("mpesa_callback", 200, "Callback Processed")
                 /\ UNCHANGED stk_calls

\* ---- mpesa_callback as the event loop runs it: one step per await ----
\* lines 110-128: parse the payload, select the payment
cb_lookup(w, cb) ==
  LET found == MatchingPayments(payments, cb.checkout_request_id)
  IN /\ pc[w] = "idle"
     /\ IF found = {}
          THEN /\ result' = Response("mpesa_callback", 200, "Payment not found")
               /\ UNCHANGED <<pc, task>>
          ELSE /\ \E p \in found :
                    task' = [task EXCEPT ![w] = [kind |-> "mpesa_callback", cb |-> cb,
                                                payment |-> p, read_total |-> 0]]
               /\ pc' = [pc EXCEPT ![w] = IF cb.result_code = 0
                                            THEN "cb_enrollment" ELSE "cb_commit"]
               /\ UNCHANGED result
     /\ UNCHANGED <<lessons, pay_vars, last_callback>>

\* lines 136-143: session.get(Enrollment), total_paid += amount on the loaded object
cb_get_enrollment(w) ==
  /\ pc[w] = "cb_enrollment"
  /\ task' = [task EXCEPT ![w].read_total = total_paid[payments[task[w].payment].enrollment_id]]
  /\ pc' = [pc EXCEPT ![w] = "cb_commit"]
  /\ UNCHANGED <<lessons, pay_vars, result, last_callback>>

\* lines 150-153: one commit writes the payment row and the loaded enrollment
cb_commit(w) ==
  LET p == task[w].payment
      cb == task[w].cb
      e == payments[p].enrollment_id
  IN /\ pc[w] = "cb_commit"
     /\ CreditedTotal(task[w].read_total, cb) <= MaxCredits * ConfirmedAmount
     /\ payments' = [payments EXCEPT ![p] = UpdatedPayment(@, cb)]
     /\ total_paid' = IF cb.result_code = 0
                        THEN [total_paid EXCEPT ![e] = CreditedTotal(task[w].read_total, cb)]
                        ELSE total_paid
     /\ result' = Response("mpesa_callback", 200, "Callback Processed")
     /\ pc' = [pc EXCEPT ![w] = "idle"]
     /\ task' = [task EXCEPT ![w] = NoTask]
     /\ UNCHANGED <<lessons, last_callback, stk_calls>>

Init ==
  /\ lessons = <<>>
  /\ payments = <<>>
  /\ total_paid = [e \in Enrollments |-> 0]
  /\ result = Response("none", 0, OK)
  /\ pc = [w \in Workers |-> "idle"]
  /\ task = [w \in Workers |-> NoTask]
  /\ last_callback = NoCallback
  /\ stk_calls = <<>>

\* one request at a time, each handler run to its end
SchedNext ==
  \/ \E req \in LessonCreate, user \in Callers, utcnow \in Clock :
        schedule_lesson(req, user, utcnow)
        /\ UNCHANGED <<pay_vars, pc, task, last_callback>>
  \/ \E id \in 1..MaxLessons + 1, s \in LessonStatus, user \in Callers :
        update_lesson_status(id, s, user)
        /\ UNCHANGED <<pay_vars, pc, task, last_callback>>

SchedSpec == Init /\ [][SchedNext]_vars

\* bookings of two workers interleaved at their await points
SchedRaceNext ==
  \E w \in Workers :
    \/ \E req \in RaceRequests, utcnow \in Clock :
          sl_check_instructor(w, req, [id |-> "u1", role |-> "student"], utcnow)
    \/ sl_check_vehicle(w)
    \/ sl_check_enrollment(w)
    \/ sl_commit(w)

SchedRaceSpec == Init /\ [][SchedRaceNext]_vars

\* payments, one request at a time
PayNext ==
  \/ \E e \in EnrollmentIds, a \in RequestAmounts, user \in Callers, utcnow \in PayClock,
        gw \in Refs \cup {GatewayFailure} :
        initiate_payment(e, a, user, utcnow, gw)
        /\ UNCHANGED <<sched_vars, pc, task, last_callback>>
  \/ \E cb \in Callbacks :
        mpesa_callback(cb)
        /\ UNCHANGED <<sched_vars, pc, task, last_callback>>

PaySpec == Init /\ [][PayNext]_vars

\* the same, remembering the callback processed last
PayHistoryNext ==
  \/ \E e \in EnrollmentIds, a \in RequestAmounts, user \in Callers, utcnow \in PayClock,
        gw \in Refs \cup {GatewayFailure} :
        initiate_payment(e, a, user, utcnow, gw)
        /\ last_callback' = NoCallback
        /\ UNCHANGED <<sched_vars, pc, task>>
  \/ \E cb \in Callbacks :
        mpesa_callback(cb)
        /\ last_callback' = cb
        /\ UNCHANGED <<sched_vars, pc, task>>

PayHistorySpec == Init /\ [][PayHistoryNext]_vars

\* callbacks as the gateway sends them: for checkout id r1, with receipt r2
RaceCallbacks ==
  { cb \in Callbacks : cb.checkout_request_id = "r1" /\ cb.mpesa_receipt_number = "r2" }

\* callback deliveries of two workers interleaved at their await points
PayRaceNext ==
  \/ \E e \in Enrollments, utcnow \in PayClock, gw \in Refs \cup {GatewayFailure} :
        initiate_payment(e, 5000000, [id |-> "u1", role |-> "student"], utcnow, gw)
        /\ UNCHANGED <<sched_vars, pc, task, last_callback>>
  \/ \E w \in Workers :
        \/ \E cb \in RaceCallbacks : cb_lookup(w, cb)
        \/ cb_get_enrollment(w)
        \/ cb_commit(w)

PayRaceSpec == Init /\ [][PayRaceNext]_vars

\* initiations of two workers interleaved at their await points, and callbacks
PayStepNext ==
  \/ \E w \in Workers :
        \/ \E e \in EnrollmentIds, a \in RequestAmounts, user \in Callers, utcnow \in PayClock :
              ip_begin(w, e, a, user, utcnow)
        \/ ip_stk_push(w)
        \/ \E gw \in Refs \cup {GatewayFailure} : ip_response(w, gw)
  \/ \E cb \in Callbacks :
        mpesa_callback(cb)
        /\ UNCHANGED <<sched_vars, pc, task, last_callback>>

PayStepSpec == Init /\ [][PayStepNext]_vars

(* ---------------- validate_schedule called on its own ---------------- *)
\* rows of the lesson table a caller of validate_schedule may find
TableRows ==
  { [scheduled_at |-> 630, duration_minutes |-> 30, instructor_id |-> "i1",
     vehicle_id |-> "v1", status |-> "scheduled", seen |-> 0],
    [scheduled_at |-> 675, duration_minutes |-> 30, instructor_id |-> "i1",
     vehicle_id |-> NoVehicle, status |-> "scheduled", seen |-> 0],
    [scheduled_at |-> 660, duration_minutes |-> 30, instructor_id |-> "i2",
     vehicle_id |-> "v1", status |-> "scheduled", seen |-> 0],
    [scheduled_at |-> 660, duration_minutes |-> 30, instructor_id |-> "i1",
     vehicle_id |-> "v1", status |-> "cancelled", seen |-> 0] }

Tables == UNION { [1..n -> TableRows] : n \in 0..MaxLessons }

\* <<start_time, end_time>> of the calls:
\*   Monday 10:30-11:00, 11:00-11:30, 11:15-11:45;
\*   Monday 06:00-06:30, 18:00-19:00, 18:30-19:30;
\*   Monday 10:30-10:30, 10:30-10:59, 10:30-13:31;
\*   Monday 07:00-07:30, 10:00-10:30; a Monday 91 days ahead 10:30-11:00;
\*   Saturday 10:00-10:30, 07:30-08:00, 16:00-17:00, 16:30-17:30, 17:00-17:30;
\*   Sunday 10:30-11:00, 06:00-06:30, 10:30-10:40;
\*   the next Monday 06:00-06:30, 18:00-19:00;
\*   Monday 10:30-13:30, 08:29-08:59, 08:30-09:00, 10:29-10:59;
\*   08:30-09:00 and 08:31-09:01 of the day 90 days ahead
ValidateTimes ==
  { <<630, 660>>, <<660, 690>>, <<675, 705>>,
    <<360, 390>>, <<1080, 1140>>, <<1110, 1170>>,
    <<630, 630>>, <<630, 659>>, <<630, 811>>,
    <<420, 450>>, <<600, 630>>,
    <<91 * MinutesPerDay + 630, 91 * MinutesPerDay + 660>>,
    <<5 * MinutesPerDay + 600, 5 * MinutesPerDay + 630>>,
    <<5 * MinutesPerDay + 450, 5 * MinutesPerDay + 480>>,
    <<5 * MinutesPerDay + 960, 5 * MinutesPerDay + 1020>>,
    <<5 * MinutesPerDay + 990, 5 * MinutesPerDay + 1050>>,
    <<5 * MinutesPerDay + 1020, 5 * MinutesPerDay + 1050>>,
    <<6 * MinutesPerDay + 630, 6 * MinutesPerDay + 660>>,
    <<6 * MinutesPerDay + 360, 6 * MinutesPerDay + 390>>,
    <<6 * MinutesPerDay + 630, 6 * MinutesPerDay + 640>>,
    <<7 * MinutesPerDay + 360, 7 * MinutesPerDay + 390>>,
    <<7 * MinutesPerDay + 1080, 7 * MinutesPerDay + 1140>>,
    <<630, 810>>, <<509, 539>>, <<510, 540>>, <<629, 659>>,
    <<90 * MinutesPerDay + 510, 90 * MinutesPerDay + 540>>,
    <<90 * MinutesPerDay + 511, 90 * MinutesPerDay + 541>> }

\* the arguments of one call; exclude_lesson_id = 0 is None
ValidateCall(t, instructor_id, vehicle_id, utcnow, exclude_lesson_id) ==
  [kind |-> "validate_schedule", start_time |-> t[1], end_time |-> t[2],
   instructor_id |-> instructor_id, vehicle_id |-> vehicle_id,
   utcnow |-> utcnow, exclude_lesson_id |-> exclude_lesson_id]

ValidateInit ==
  /\ lessons \in Tables
  /\ \E t \in ValidateTimes, i \in Instructors, v \in Vehicles \cup {NoVehicle},
        utcnow \in Clock, x \in 0..MaxLessons :
        task = [w \in Workers |-> IF w = 1 THEN ValidateCall(t, i, v, utcnow, x) ELSE NoTask]
  /\ payments = <<>>
  /\ total_paid = [e \in Enrollments |-> 0]
  /\ result = Response("none", 0, OK)
  /\ pc = [w \in Workers |-> "idle"]
  /\ last_callback = NoCallback
  /\ stk_calls = <<>>

validate_schedule_call ==
  LET a == task[1]
      err == validate_schedule(lessons, a.start_time, a.end_time, a.instructor_id,
                               a.vehicle_id, a.utcnow, a.exclude_lesson_id)
  IN /\ pc[1] = "idle"
     /\ result' = Response("validate_schedule", IF err = OK THEN 200 ELSE 400, err)
     /\ pc' = [pc EXCEPT ![1] = "done"]
     /\ UNCHANGED <<lessons, pay_vars, task, last_callback>>

ValidateNext == validate_schedule_call

ValidateSpec == ValidateInit /\ [][ValidateNext]_vars

(* ======================= scheduling claims ======================= *)
Active(i) == ActiveStatus(lessons[i].status)
TerminalLessonStatus == {"completed", "cancelled", "no_show"}

\* one lesson ends at least MIN_BREAK_MINUTES before the other starts
BreakKept(a, b) ==
  \/ LessonEnd(a) + MIN_BREAK_MINUTES <= LessonStart(b)
  \/ LessonEnd(b) + MIN_BREAK_MINUTES <= LessonStart(a)

\* the half-open intervals [start, end) of two lessons intersect
Intersect(a, b) == LessonStart(a) < LessonEnd(b) /\ LessonStart(b) < LessonEnd(a)

\* C1: in every state reached by bookings and status updates, any two distinct
\* active lessons of one instructor are at least MIN_BREAK_MINUTES apart.
C1_InstructorBreakKept ==
  \A i, j \in DOMAIN lessons :
    (i < j /\ lessons[i].instructor_id = lessons[j].instructor_id /\ Active(i) /\ Active(j))
      => BreakKept(lessons[i], lessons[j])

\* C2: of two bookings of one instructor, closer than the break allows, that run
\* concurrently (the first was inserted after the conflict query of the second
\* and before its insert), at most one persists a lesson.
C2_OneOfTwoConcurrentBookings ==
  \A i, j \in DOMAIN lessons :
    (i < j /\ lessons[j].seen < i /\ lessons[i].instructor_id = lessons[j].instructor_id)
      => BreakKept(lessons[i], lessons[j])

\* C8: in every state reached by bookings and status updates, no two distinct
\* active lessons using the same vehicle have intersecting intervals [start, end).
C8_VehicleNoOverlap ==
  \A i, j \in DOMAIN lessons :
    ( /\ i < j /\ lessons[i].vehicle_id # NoVehicle
      /\ lessons[i].vehicle_id = lessons[j].vehicle_id /\ Active(i) /\ Active(j) )
      => ~Intersect(lessons[i], lessons[j])

\* C9: a lesson that is COMPLETED, CANCELLED or NO_SHOW keeps its status, and a
\* status only ever changes from SCHEDULED to one of these three.
C9_TerminalLessonKeepsStatus ==
  [][ \A i \in DOMAIN lessons :
        lessons'[i].status # lessons[i].status
          => /\ lessons[i].status = "scheduled"
             /\ lessons'[i].status \in TerminalLessonStatus ]_vars

(* ======================= payment claims ======================= *)
TerminalPaymentStatus == {"completed", "failed"}

RECURSIVE SumConfirmed(_, _)
SumConfirmed(P, ids) ==
  IF ids = {} THEN 0
  ELSE LET i == CHOOSE x \in ids : TRUE
       IN P[i].confirmed + SumConfirmed(P, ids \ {i})

CompletedOf(e) ==
  { i \in DOMAIN payments : payments[i].enrollment_id = e /\ payments[i].status = "completed" }

\* the statuses of all payments, as a function of the payment id
Statuses(P) == [i \in DOMAIN P |-> P[i].status]

\* C3: a successful callback delivered again right after it was processed
\* leaves every total_paid and every payment status as the first delivery left them.
C3_DuplicateCallbackCreditsOnce ==
  [][ ( /\ last_callback.result_code = 0
        /\ result.detail = "Callback Processed"
        /\ last_callback' = last_callback )
      => (total_paid' = total_paid /\ Statuses(payments') = Statuses(payments)) ]_vars

PaymentsOf(e) == { i \in DOMAIN payments : payments[i].enrollment_id = e }

\* C4: of concurrent deliveries of one successful callback only one completes
\* and credits the payment: an enrollment's total_paid never exceeds the sum of
\* the amounts confirmed for its payments, each counted once.
C4_OneConcurrentDeliveryCredits ==
  \A e \in Enrollments : total_paid[e] <= SumConfirmed(payments, PaymentsOf(e))

\* C5: a payment leaves PENDING at most once: a COMPLETED or FAILED payment
\* keeps its status.
C5_TerminalPaymentKeepsStatus ==
  [][ \A i \in DOMAIN payments :
        payments[i].status \in TerminalPaymentStatus
          => payments'[i].status = payments[i].status ]_vars

\* C6: each enrollment's total_paid is the sum of the confirmed amounts of its
\* COMPLETED payments.
C6_TotalPaidIsSumOfCompleted ==
  \A e \in Enrollments : total_paid[e] = SumConfirmed(payments, CompletedOf(e))

\* C7: the transition to COMPLETED and the credit are one commit: a step that
\* makes a payment COMPLETED also writes the credited total_paid of its
\* enrollment, and a step that changes a total_paid also leaves the payment it
\* credits for COMPLETED.
Committing(w, p) == pc[w] = "cb_commit" /\ pc'[w] = "idle" /\ task[w].payment = p

UnknownCorrelationId(cb) ==
  \A i \in DOMAIN payments : payments[i].external_ref # cb.checkout_request_id

C10_UnknownCallbackIgnored ==
  [][ \A cb \in Callbacks :
        (UnknownCorrelationId(cb) /\ mpesa_callback(cb))
          => /\ payments' = payments
             /\ total_paid' = total_paid
             /\ result' = Response("mpesa_callback", 200, "Payment not found") ]_vars

\* an unknown callback was answered while a pending payment waits for another id
C10_Witness ==
  /\ result = Response("mpesa_callback", 200, "Payment not found")
  /\ \E i \in DOMAIN payments :
        payments[i].status = "pending" /\ payments[i].external_ref \in Refs

\* C11: a callback that matches only payments already COMPLETED or FAILED
\* changes no payment (status, external_ref) and no total_paid, and is answered
\* "already processed".
MatchesTerminal(cb) ==
  LET found == MatchingPayments(payments, cb.checkout_request_id)
  IN found # {} /\ \A i \in found : payments[i].status \in TerminalPaymentStatus

C11_TerminalCallbackIsNoop ==
  [][ \A cb \in Callbacks :
        (MatchesTerminal(cb) /\ mpesa_callback(cb))
          => /\ payments' = payments
             /\ total_paid' = total_paid
             /\ result'.detail = "already processed" ]_vars

(* ======================= validation claims ======================= *)
Validated == pc[1] = "done" /\ result.op = "validate_schedule"

\* the constraint, in the numbering of the booking contract, an error message belongs to
ConstraintOf(detail) ==
  IF detail = "Lesson end time must be after start time" THEN 1
  ELSE IF detail \in {"Lesson must be at least 30 minutes", "Lesson cannot exceed 180 minutes"}
    THEN 2
  ELSE IF detail \in {"Cannot schedule lessons in the past",
                      "Lessons must be booked at least 2 hours in advance",
                      "Cannot book lessons more than 90 days in advance"}
    THEN 3
  ELSE IF detail \in {"Lessons cannot start before 7:00 AM", "Lessons must end by 19:00 PM",
                      "Lesson start time is outside business hours",
                      "Lessons are not available on Sundays",
                      "Saturday lessons are only available between 8:00 AM and 5:00 PM"}
    THEN 4
  ELSE IF detail = "Instructor is not available at this time (including required break time)"
    THEN 5
  ELSE IF detail = "Vehicle is not available at this time" THEN 6
  ELSE 0

\* the lowest-numbered constraint the call violates, 0 when it violates none
FirstViolated ==
  LET a == task[1]
      s == a.start_time
      e == a.end_time
  IN IF e <= s THEN 1
     ELSE IF e - s < MIN_LESSON_DURATION_MINUTES \/ e - s > MAX_LESSON_DURATION_MINUTES THEN 2
     ELSE IF validate_advance_booking(s, a.utcnow) # OK THEN 3
     ELSE IF validate_business_hours(s, e) # OK \/ validate_weekend_scheduling(s) # OK THEN 4
     ELSE IF InstructorConflicts(lessons, a.instructor_id, s, e, a.exclude_lesson_id) # {} THEN 5
     ELSE IF a.vehicle_id # NoVehicle
             /\ VehicleConflicts(lessons, a.vehicle_id, s, e, a.exclude_lesson_id) # {} THEN 6
     ELSE 0

\* C12: the error validate_schedule returns is that of the lowest-numbered
\* violated constraint in the order end > start, duration, advance booking,
\* weekday/business-hour window, instructor overlap, vehicle overlap.
C12_FirstViolatedConstraintReported ==
  Validated => ConstraintOf(result.detail) = FirstViolated

(* ======================= booking claims ======================= *)
\* C13: a schedule_lesson request that is rejected (validation error, instructor
\* or vehicle conflict, caller not authorized for the enrollment) leaves the
\* lesson table exactly as it was.
C13_RejectedBookingPersistsNothing ==
  [][ (result'.op = "schedule_lesson" /\ result'.code # 200) => lessons' = lessons ]_vars

\* a booking was turned down for an instructor conflict with a persisted lesson
C13_Witness ==
  /\ result = Response("schedule_lesson", 400,
                "Instructor is not available at this time (including required break time)")
  /\ lessons # <<>>

\* C14: an accepted schedule_lesson request adds exactly one lesson to the
\* table, changes no other, and the new lesson's status is SCHEDULED.
C14_AcceptedBookingIsScheduled ==
  [][ (result'.op = "schedule_lesson" /\ result'.code = 200)
        => /\ Len(lessons') = Len(lessons) + 1
           /\ SubSeq(lessons', 1, Len(lessons)) = lessons
           /\ lessons'[Len(lessons')].status = "scheduled" ]_vars

(* ======================= payment initiation claims ======================= *)
\* an amount initiate_payment must refuse: not positive, outside 100..500000
\* shillings, or with more than two decimal places (amounts are in thousandths)
AmountInvalid(a) ==
  a <= 0 \/ a < 100 * 1000 \/ a > 500000 * 1000 \/ a % 10 # 0

\* C15: initiate_payment with such an amount is rejected with no Payment row
\* created and no gateway call made.
C15_InvalidAmountRejectedFirst ==
  [][ \A e \in EnrollmentIds, a \in RequestAmounts, user \in Callers, utcnow \in PayClock,
         gw \in Refs \cup {GatewayFailure} :
        (AmountInvalid(a) /\ initiate_payment(e, a, user, utcnow, gw))
          => /\ result'.op = "initiate_payment" /\ result'.code = 400
             /\ payments' = payments
             /\ stk_calls' = stk_calls ]_vars

\* a payment of 50 shillings was refused with nothing stored and nothing sent
C15_Witness ==
  /\ result = Response("initiate_payment", 400, "Payment amount must be at least KES 100.00")
  /\ payments = <<>>
  /\ stk_calls = <<>>

\* C16: whenever the gateway call of an initiate_payment starts, the payment it
\* is made for is already in the table, PENDING, with the placeholder reference.
C16_PendingCommittedBeforeGateway ==
  [][ stk_calls' # stk_calls
        => LET p == stk_calls'[Len(stk_calls')]
           IN /\ p \in DOMAIN payments
              /\ payments[p].status = "pending"
              /\ payments[p].external_ref = Placeholder ]_vars

\* a gateway call is in flight for a committed PENDING payment
C16_Witness ==
  \E w \in Workers :
    /\ pc[w] = "ip_await"
    /\ task[w].payment \in DOMAIN payments
    /\ payments[task[w].payment].status = "pending"
    /\ stk_calls # <<>>

\* C17: an initiate_payment whose gateway call fails ends with its payment
\* FAILED and the error answered; the gateway is called at most once for a
\* payment; and a payment that is PENDING with the placeholder reference
\* belongs to an initiate_payment that has not finished.
InFlight(w, p) ==
  pc[w] \in {"ip_stk_push", "ip_await"} /\ task[w].payment = p

C17_GatewayFailureMarksFailed ==
  [][ /\ \A w \in Workers :
            ip_response(w, GatewayFailure)
              => /\ payments'[task[w].payment].status = "failed"
                 /\ result'.code = 400
      /\ \A i, j \in DOMAIN stk_calls' : i # j => stk_calls'[i] # stk_calls'[j]
      /\ \A p \in DOMAIN payments' :
            (payments'[p].status = "pending" /\ payments'[p].external_ref = Placeholder)
              => \E w \in Workers : InFlight(w, p)' ]_vars

\* a gateway failure was answered and its payment is FAILED
C17_Witness ==
  /\ result = Response("initiate_payment", 400, "M-Pesa Initiation Failed")
  /\ \E i \in DOMAIN stk_calls :
        /\ payments[stk_calls[i]].status = "failed"
        /\ payments[stk_calls[i]].external_ref = Placeholder

\* C18: with exclude_lesson_id set to a lesson of the table, validate_schedule
\* reports an instructor or vehicle conflict only when a lesson other than that
\* one conflicts, and it still reports the conflict with every other lesson.
OtherInstructorConflict ==
  LET a == task[1]
  IN InstructorConflicts(lessons, a.instructor_id, a.start_time, a.end_time, 0)
       \ {a.exclude_lesson_id} # {}

OtherVehicleConflict ==
  LET a == task[1]
  IN /\ a.vehicle_id # NoVehicle
     /\ VehicleConflicts(lessons, a.vehicle_id, a.start_time, a.end_time, 0)
          \ {a.exclude_lesson_id} # {}

C18_RescheduleExcludesItself ==
  (Validated /\ task[1].exclude_lesson_id \in DOMAIN lessons)
    => LET a == task[1]
           static == StaticChecks(a.start_time, a.end_time, a.utcnow)
       IN /\ ConstraintOf(result.detail) = 5 => OtherInstructorConflict
          /\ ConstraintOf(result.detail) = 6 => OtherVehicleConflict
          /\ (static = OK /\ OtherInstructorConflict) => ConstraintOf(result.detail) = 5
          /\ (static = OK /\ ~OtherInstructorConflict /\ OtherVehicleConflict)
               => ConstraintOf(result.detail) = 6

\* a lesson was moved onto its own slot, within its own break and on its own
\* vehicle, and the move was found valid
C18_Witness ==
  /\ Validated
  /\ LET a == task[1]
         k == a.exclude_lesson_id
     IN /\ k \in InstructorConflicts(lessons, a.instructor_id, a.start_time, a.end_time, 0)
        /\ k \in VehicleConflicts(lessons, a.vehicle_id, a.start_time, a.end_time, 0)
  /\ result.code = 200

\* C19: a call whose start falls on a Sunday is answered "Lessons are not
\* available on Sundays", at any hour and whatever else is wrong with it.
C19_SundayAlwaysSundayMessage ==
  (Validated /\ Weekday(task[1].start_time) = 6)
    => result.detail = "Lessons are not available on Sundays"

\* start and end lie in the window of the start's weekday: Monday to Friday
\* 07:00-19:00, Saturday 08:00-17:00, none on Sunday
InsideWindow(s, e) ==
  LET day == Weekday(s)
      from == s % MinutesPerDay
      to == e - (s \div MinutesPerDay) * MinutesPerDay
  IN IF day = 6 THEN FALSE
     ELSE IF day = 5 THEN 8 * 60 <= from /\ to <= 17 * 60
     ELSE 7 * 60 <= from /\ to <= 19 * 60

\* C20: for a call that passes the duration and advance-booking rules, the
\* business-hour checks reject it exactly when its start or end lies outside
\* the window of its weekday; a lesson ending at closing time passes.
C20_WindowCheckedExactly ==
  LET a == task[1]
  IN ( /\ Validated
       /\ validate_lesson_duration(a.start_time, a.end_time) = OK
       /\ validate_advance_booking(a.start_time, a.utcnow) = OK )
       => (ConstraintOf(result.detail) = 4 <=> ~InsideWindow(a.start_time, a.end_time))

\* the rule, among end > start (1), at least 30 minutes (2), at most 180
\* minutes (3) and the weekday's window (4), an error message belongs to
RuleOf(detail) ==
  IF detail = "Lesson end time must be after start time" THEN 1
  ELSE IF detail = "Lesson must be at least 30 minutes" THEN 2
  ELSE IF detail = "Lesson cannot exceed 180 minutes" THEN 3
  ELSE IF ConstraintOf(detail) = 4 THEN 4
  ELSE 0

\* the rules of that list a call violates
RulesViolated(s, e) ==
  {r \in 1..4 :
     \/ r = 1 /\ e <= s
     \/ r = 2 /\ e > s /\ e - s < 30
     \/ r = 3 /\ e - s > 180
     \/ r = 4 /\ ~InsideWindow(s, e)}

\* C21: a call that meets the advance-booking rule and violates exactly one of
\* these four rules is rejected with a message of that rule, the messages of
\* different rules differing; a duration of exactly 30 or 180 minutes is not
\* rejected by the duration rules.
C21_OneRuleOneMessage ==
  LET a == task[1]
      s == a.start_time
      e == a.end_time
  IN (Validated /\ validate_advance_booking(s, a.utcnow) = OK)
       => /\ \A r \in 1..4 : RulesViolated(s, e) = {r} => RuleOf(result.detail) = r
          /\ e - s \in {30, 180} => RuleOf(result.detail) \notin {2, 3}

\* C22: the advance-booking rule lets a start through exactly when
\* utcnow + 2 hours <= start <= utcnow + 90 days; before utcnow the answer is
\* "in the past", less than 2 hours ahead "at least 2 hours in advance", more
\* than 90 days ahead "more than 90 days in advance".
C22_AdvanceBookingWindow ==
  LET a == task[1]
      s == a.start_time
      now == a.utcnow
  IN ( /\ Validated
       /\ validate_business_hours(s, a.end_time) = OK
       /\ validate_lesson_duration(s, a.end_time) = OK )
       => /\ ConstraintOf(result.detail) # 3 <=> (now + 2 * 60 <= s /\ s <= now + 90 * 24 * 60)
          /\ s < now => result.detail = "Cannot schedule lessons in the past"
          /\ (now <= s /\ s < now + 2 * 60)
               => result.detail = "Lessons must be booked at least 2 hours in advance"
          /\ s > now + 90 * 24 * 60
               => result.detail = "Cannot book lessons more than 90 days in advance"

\* a lesson starting exactly two hours after the call was found valid
C22_Witness ==
  /\ Validated
  /\ task[1].start_time = task[1].utcnow + 2 * 60
  /\ result.code = 200

(* ---------------- initiate_payment called on a table of earlier payments ---------------- *)
\* payments of 500000 shillings made on Monday 23:00 or Tuesday 00:30, confirmed or not
LimitRows ==
  { [enrollment_id |-> e, amount |-> MAX_PAYMENT_AMOUNT, status |-> st,
     external_ref |-> IF st = "completed" THEN "r2" ELSE "r1", created_at |-> t,
     confirmed |-> IF st = "completed" THEN MAX_PAYMENT_AMOUNT ELSE 0] :
       e \in Enrollments, st \in {"completed", "pending"}, t \in {1380, 1470} }

LimitTables == UNION { [1..n -> LimitRows] : n \in 0..MaxPayments }

\* the request is made on Tuesday at 01:00 or at 23:30
LimitClock == {1500, 2850}

LimitCall(enrollment_id, amount, user, utcnow) ==
  [kind |-> "initiate_payment", enrollment_id |-> enrollment_id, amount |-> amount,
   user |-> user, utcnow |-> utcnow]

LimitInit ==
  /\ payments \in LimitTables
  /\ total_paid = [e \in Enrollments |-> SumConfirmed(payments, CompletedOf(e))]
  /\ \E e \in EnrollmentIds, a \in {5000000, MAX_PAYMENT_AMOUNT},
        user \in {c \in Callers : c.role # "instructor"}, utcnow \in LimitClock :
        task = [w \in Workers |-> IF w = 1 THEN LimitCall(e, a, user, utcnow) ELSE NoTask]
  /\ lessons = <<>>
  /\ result = Response("none", 0, OK)
  /\ pc = [w \in Workers |-> "idle"]
  /\ last_callback = NoCallback
  /\ stk_calls = <<>>

initiate_payment_call ==
  LET a == task[1]
  IN /\ pc[1] = "idle"
     /\ \E gw \in Refs \cup {GatewayFailure} :
           initiate_payment_handler(a.enrollment_id, a.amount, a.user, a.utcnow, gw)
     /\ pc' = [pc EXCEPT ![1] = "done"]
     /\ UNCHANGED <<lessons, task, last_callback>>

LimitNext == initiate_payment_call

LimitSpec == LimitInit /\ [][LimitNext]_vars

(* ======================= daily limit claim ======================= *)
\* the COMPLETED payments of the holder of enrollment e created in the 24 hours before now
RollingRows(e, now) ==
  { i \in DOMAIN payments :
      /\ Holder(payments[i].enrollment_id) = Holder(e)
      /\ payments[i].status = "completed"
      /\ now - 24 * 60 < payments[i].created_at /\ payments[i].created_at <= now }

\* C23: initiate_payment, for an amount that passes the amount rule, answers
\* with the daily-limit error, creating no row, exactly when the amounts of the
\* enrollment holder's COMPLETED payments of the last 24 hours plus the amount
\* asked exceed 1,000,000 shillings.
C23_RollingDailyLimit ==
  [][ LET a == task[1]
      IN ( /\ pc[1] = "idle" /\ pc'[1] = "done" /\ a.kind = "initiate_payment"
           /\ a.enrollment_id \in Enrollments
           /\ ~AmountInvalid(a.amount) )
           => /\ result'.detail = "Daily payment limit of KES 1000000.00 would be exceeded"
                   <=> SumAmounts(payments, RollingRows(a.enrollment_id, a.utcnow)) + a.amount
                         > 1000000 * 1000
              /\ result'.detail = "Daily payment limit of KES 1000000.00 would be exceeded"
                   => payments' = payments ]_vars

(* ======================= callback claims ======================= *)
\* C24: a payment's external_ref changes only from the placeholder to the
\* gateway's checkout request id while the payment stays PENDING, and from that
\* id to the receipt id in the step that makes the PENDING payment COMPLETED;
\* hence at most twice, and never after the payment left PENDING.
C24_ExternalRefChangesTwice ==
  [][ \A i \in DOMAIN payments :
        payments'[i].external_ref # payments[i].external_ref
          => \/ /\ payments[i].external_ref = Placeholder
                /\ payments[i].status = "pending" /\ payments'[i].status = "pending"
             \/ /\ payments[i].external_ref # Placeholder
                /\ payments[i].status = "pending" /\ payments'[i].status = "completed" ]_vars

\* C25: a callback with a non-zero result code whose id is that of exactly one
\* payment, a PENDING one, makes that payment FAILED and changes nothing else:
\* not its external_ref, no other payment, no total_paid.
C25_FailureCallbackOnlyFails ==
  [][ \A cb \in Callbacks, p \in DOMAIN payments :
        ( /\ cb.result_code # 0
          /\ MatchingPayments(payments, cb.checkout_request_id) = {p}
          /\ payments[p].status = "pending"
          /\ mpesa_callback(cb) )
          => /\ payments' = [payments EXCEPT ![p].status = "failed"]
             /\ total_paid' = total_paid ]_vars

\* a failure callback was applied: the payment is FAILED, still carries the
\* checkout request id, and nothing was credited
C25_Witness ==
  /\ result = Response("mpesa_callback", 200, "Callback Processed")
  /\ \E p \in DOMAIN payments :
        payments[p].status = "failed" /\ payments[p].external_ref \in Refs
  /\ \A e \in Enrollments : total_paid[e] = 0

(* ---------------- the overlap clause of the conflict queries on one row ---------------- *)
\* a lesson row [s, e) and the window [from, to) the query is built for
OverlapInit ==
  /\ \E s, e, from, to \in 0..MaxTime :
        task = [w \in Workers |->
                  IF w = 1 THEN [kind |-> "conflict_query", s |-> s, e |-> e,
                                 from |-> from, to |-> to]
                           ELSE NoTask]
  /\ lessons = <<>>
  /\ payments = <<>>
  /\ total_paid = [e \in Enrollments |-> 0]
  /\ result = Response("none", 0, OK)
  /\ pc = [w \in Workers |-> "idle"]
  /\ last_callback = NoCallback
  /\ stk_calls = <<>>

\* the where clause evaluated on the row: it is among the conflicts or not
conflict_query ==
  LET a == task[1]
  IN /\ pc[1] = "idle"
     /\ result' = Response("conflict_query", 200,
                           IF OverlapClause(a.s, a.e, a.from, a.to) THEN "conflict" ELSE "free")
     /\ pc' = [pc EXCEPT ![1] = "done"]
     /\ UNCHANGED <<lessons, pay_vars, task, last_callback>>

OverlapNext == conflict_query

OverlapSpec == OverlapInit /\ [][OverlapNext]_vars

(* ======================= overlap claim ======================= *)
\* C26: for a lesson [s, e) with s < e and a window [c, d) with c < d, the
\* clause selects the lesson exactly when s < d and c < e; intervals that only
\* touch at an end are not selected.
C26_OverlapIsIntersection ==
  LET a == task[1]
  IN (pc[1] = "done" /\ result.op = "conflict_query" /\ a.s < a.e /\ a.from < a.to)
       => (result.detail = "conflict" <=> (a.s < a.to /\ a.from < a.e))

\* a lesson ending where the window starts was not selected
C26_Witness ==
  /\ pc[1] = "done" /\ result.op = "conflict_query"
  /\ task[1].s < task[1].e /\ task[1].e = task[1].from /\ task[1].from < task[1].to
  /\ result.detail = "free"

(* ======================= slot claims ======================= *)
\* the static rules of the booking contract, for a request made at utcnow
StaticRulesMet(req, utcnow) ==
  LET s == ReqStart(req)
      e == ReqEnd(req)
  IN /\ e > s /\ e - s >= 30 /\ e - s <= 180
     /\ utcnow + 2 * 60 <= s /\ s <= utcnow + 90 * 24 * 60
     /\ InsideWindow(s, e)

\* no active lesson of the instructor within the break of the request, none of
\* the vehicle during it
Blocking(i) == lessons[i].status \in {"scheduled", "in_progress"}

SlotFree(req) ==
  \A i \in DOMAIN lessons :
    Blocking(i)
      => /\ lessons[i].instructor_id = req.instructor_id
              => ~( LessonStart(lessons[i]) < ReqEnd(req) + MIN_BREAK_MINUTES
                    /\ ReqStart(req) - MIN_BREAK_MINUTES < LessonEnd(lessons[i]) )
         /\ (req.vehicle_id # NoVehicle /\ lessons[i].vehicle_id = req.vehicle_id)
              => ~( LessonStart(lessons[i]) < ReqEnd(req)
                    /\ ReqStart(req) < LessonEnd(lessons[i]) )

\* C27: a request of a caller allowed to book for the enrollment, meeting every
\* static rule, whose slot is free of active lessons of its instructor (break
\* included) and of its vehicle, is accepted and persisted as a SCHEDULED lesson.
C27_FreeSlotBooked ==
  [][ \A req \in LessonCreate, user \in Callers, utcnow \in Clock :
        ( /\ StaticRulesMet(req, utcnow)
          /\ EnrollmentAuthorized(req, user)
          /\ SlotFree(req)
          /\ schedule_lesson(req, user, utcnow) )
          => /\ result'.code = 200
             /\ Len(lessons') = Len(lessons) + 1
             /\ lessons'[Len(lessons')].scheduled_at = req.scheduled_at
             /\ lessons'[Len(lessons')].status = "scheduled" ]_vars

(* ---------------- both routers serving requests, one at a time ---------------- *)
\* theory lessons of instructor i1 for enrollment e1, Monday 10:30 and 11:15
EngineRequests ==
  { r \in RaceRequests :
      /\ r.instructor_id = "i1" /\ r.vehicle_id = NoVehicle
      /\ r.enrollment_id = "e1" /\ r.scheduled_at \in {630, 675} }

\* a failed payment made to cancel the lessons of its enrollment
PaymentRequest_FailureCancelsLessons ==
  \/ \E gw \in Refs \cup {GatewayFailure} :
        initiate_payment("e1", 5000000, [id |-> "u1", role |-> "student"], 510, gw)
        /\ UNCHANGED <<sched_vars, pc, task, last_callback>>
  \/ \E cb \in RaceCallbacks :
        /\ mpesa_callback(cb)
        /\ lessons' = IF cb.result_code # 0
                        THEN [i \in DOMAIN lessons |-> [lessons[i] EXCEPT !.status = "cancelled"]]
                        ELSE lessons
        /\ UNCHANGED <<pc, task, last_callback>>

\* api/payments.py: the handlers write Payment rows and Enrollment.total_paid
PaymentRequest ==
  \/ \E gw \in Refs \cup {GatewayFailure} :
        initiate_payment("e1", 5000000, [id |-> "u1", role |-> "student"], 510, gw)
        /\ UNCHANGED <<sched_vars, pc, task, last_callback>>
  \/ \E cb \in RaceCallbacks :
        mpesa_callback(cb)
        /\ UNCHANGED <<sched_vars, pc, task, last_callback>>

\* api/lessons.py: the handlers write Lesson rows
LessonRequest ==
  \/ \E req \in EngineRequests :
        schedule_lesson(req, [id |-> "u1", role |-> "student"], 510)
        /\ UNCHANGED <<pay_vars, pc, task, last_callback>>
  \/ \E id \in 1..MaxLessons, st \in {"scheduled", "cancelled"} :
        update_lesson_status(id, st, [id |-> "a1", role |-> "admin"])
        /\ UNCHANGED <<pay_vars, pc, task, last_callback>>

EngineNext == LessonRequest \/ PaymentRequest

EngineSpec == Init /\ [][EngineNext]_vars

(* ======================= independence claim ======================= *)
\* C28: a request served by schedule_lesson or update_lesson_status changes no
\* payment and no total_paid; one served by initiate_payment or mpesa_callback
\* changes no lesson.
C28_EnginesDisjoint ==
  [][ /\ result'.op \in {"schedule_lesson", "update_lesson_status"}
           => (payments' = payments /\ total_paid' = total_paid)
      /\ result'.op \in {"initiate_payment", "mpesa_callback"}
           => lessons' = lessons ]_vars

\* a payment was failed by its callback while a lesson of the same enrollment
\* stays SCHEDULED, and a lesson was booked while a payment was credited
C28_Witness ==
  /\ result.op = "mpesa_callback"
  /\ \E p \in DOMAIN payments : payments[p].status = "failed"
  /\ \E i \in DOMAIN lessons : lessons[i].status = "scheduled"
  /\ total_paid["e1"] = ConfirmedAmount

(* ---------------- bookings and status updates on two slots ---------------- *)
\* requests of the student of e1 for Monday 10:30 and 11:00
RebookRequests ==
  { r \in RaceRequests : r.enrollment_id = "e1" /\ r.scheduled_at \in {630, 660} }

RebookNext ==
  \/ \E req \in RebookRequests :
        schedule_lesson(req, [id |-> "u1", role |-> "student"], 510)
        /\ UNCHANGED <<pay_vars, pc, task, last_callback>>
  \/ \E id \in 1..MaxLessons, st \in LessonStatus :
        update_lesson_status(id, st, [id |-> "a1", role |-> "admin"])
        /\ UNCHANGED <<pay_vars, pc, task, last_callback>>

RebookSpec == Init /\ [][RebookNext]_vars

(* ======================= rebooking claim ======================= *)
\* the request asks for the instructor, vehicle and interval of lesson i
SameSlot(req, i) ==
  /\ lessons[i].instructor_id = req.instructor_id
  /\ lessons[i].vehicle_id = req.vehicle_id
  /\ lessons[i].scheduled_at = req.scheduled_at
  /\ lessons[i].duration_minutes = req.duration_minutes

\* C29: a booking for the instructor, vehicle and interval of a lesson that is
\* CANCELLED, COMPLETED or NO_SHOW is accepted when no SCHEDULED lesson
\* occupies the slot: the lesson that left SCHEDULED does not block it.
C29_InactiveLessonFreesSlot ==
  [][ \A req \in RebookRequests, i \in DOMAIN lessons :
        ( /\ lessons[i].status \in TerminalLessonStatus
          /\ SameSlot(req, i)
          /\ SlotFree(req)
          /\ schedule_lesson(req, [id |-> "u1", role |-> "student"], 510) )
          => /\ result'.code = 200
             /\ Len(lessons') = Len(lessons) + 1 ]_vars

\* a slot was booked again after its first lesson had been cancelled
C29_Witness ==
  /\ result = Response("schedule_lesson", 200, OK)
  /\ \E i, j \in DOMAIN lessons :
        /\ i < j
        /\ lessons[i].status = "cancelled" /\ lessons[j].status = "scheduled"
        /\ lessons[i].instructor_id = lessons[j].instructor_id
        /\ lessons[i].vehicle_id = lessons[j].vehicle_id
        /\ lessons[i].vehicle_id # NoVehicle
        /\ lessons[i].scheduled_at = lessons[j].scheduled_at

====
